---- MODULE Spec2Model ----
(***************************************************************************)
(* Model of the Halibot IRC agent (src/irc.py): IrcAgent (host side:       *)
(* init, receive, shutdown, the client thread) and IrcClient (the pydle    *)
(* handlers on_connect, on_quit, on_nick_change, on_channel_message,       *)
(* on_private_message and the WHOIS cache behind identity()).              *)
(*                                                                         *)
(* Strings are sequences of one-character strings, so that "+" is \o and   *)
(* a str can be told from a list of str and iterated like Python does.     *)
(*                                                                         *)
(* What the libraries do is taken from their contract only:                *)
(*  - the event loop runs submitted tasks in FIFO order, only while the    *)
(*    client thread runs it; a coroutine runs until it awaits;             *)
(*  - every inbound IRC event is handled in a task of its own, so a        *)
(*    handler suspended in "await self.whois(nick)" lets others run;       *)
(*  - whois() answers with a record, with None, or raises; join() may      *)
(*    raise;                                                               *)
(*  - client.run() connects and serves until the loop is stopped; a        *)
(*    disconnect() of an established connection stops the loop when it     *)
(*    completes, and is a no-op while no connection is established.        *)
(*  - self.eventloop of the agent (lines 64, 67) and self.client.eventloop *)
(*    (line 71) are one loop, the one the client thread runs, as the       *)
(*    comment at lines 69-70 takes them to be.                             *)
(*  - the configurer's optionString/optionInt/optionBoolean store the      *)
(*    answer to a prompt under the given key, and leave the key alone when *)
(*    the prompt is left unanswered (what line 31 tests for); the options  *)
(*    become the agent's self.config.                                      *)
(* The connection itself is reliable: no drop and no failed connect.       *)
(***************************************************************************)
EXTENDS Integers, Sequences, FiniteSets, TLC

\* ---------------------------------------------------------------- bounds
\* Spec: the inbound side in depth
MaxEvents == 2
MaxReceives == 1
\* HostSpec: the host side in depth
HostMaxEvents == 1
HostMaxReceives == 2

\* ------------------------------------------------------------ input sets
None == "None"
Coroutine == "coroutine"
Nicks == {<<"a">>, <<"b">>}
Accounts == {"a_"}
Texts == {<<"h", "i">>}
Chan1 == <<"#", "f">>
Chan2 == <<"#", "g">>
Channels == {Chan1}
AgentName == <<"i", "r", "c">>
\* self.config['channel']: a str, or a list of str
ChannelConfigs ==
    {[isstr |-> TRUE, str |-> Chan1, list |-> <<>>],
     [isstr |-> FALSE, str |-> <<>>, list |-> <<Chan1, Chan2>>],
     [isstr |-> FALSE, str |-> <<>>, list |-> <<>>]}
HostMsgs ==
    {[origin |-> AgentName \o <<"/">> \o Chan1, body |-> <<"y", "o">>],
     [origin |-> AgentName \o <<"/", "x", "/">> \o Chan2, body |-> <<"o", "k">>]}

\* the keys configure() and init() use (lines 17-33, 44-50), and
\* 'tls-certificate-password', which neither of them names
OptionKeys ==
    {"nickname", "hostname", "port", "channel", "tls", "tls-verify",
     "tls-certificate-file", "tls-certificate-keyfile", "tls-certificate-password",
     "sasl-username", "sasl-password", "sasl-identity"}
\* the answers to the prompts of configure(), one field per prompt in the
\* order of lines 17-33; None is a prompt left unanswered
AnswerSets ==
    [nickname : {"n"}, hostname : {"h"}, port : {"p"}, channel : {"c"},
     tls : {"True", "False"}, verify : {"True", "False"},
     certfile : {None, "x", "y"}, keyfile : {None, "x", "y"},
     certpass : {None, "x", "y"},
     sasluser : {None, "u"}, saslpass : {"w"}, saslid : {"i"}]
\* the answers behind the configuration of the runs that start at init()
DefaultAnswers ==
    [nickname |-> "n", hostname |-> "h", port |-> "p", channel |-> "c",
     tls |-> "True", verify |-> "False", certfile |-> None, keyfile |-> None,
     certpass |-> None, sasluser |-> None, saslpass |-> "w", saslid |-> "i"]

\* ----------------------------------------------------------------- state
VARIABLES
    config,       \* self.config['channel']: a str [isstr, str] or a list [list]
    options,      \* the options configure() collected: the other keys of self.config
    answers,      \* history: the answers given to the prompts of configure()
    client,       \* the parameters init() constructed the IrcClient with
    hostpc,       \* position of the host thread: configure, new, running, sd_join,
                  \* sd_stop, returned
    thread,       \* the client thread: none, connecting, serving, exited
    runner,       \* the thread that executes _run_client: none, client, host
    connected,    \* the connection is established
    queue,        \* tasks submitted to the event loop, FIFO
    submitted,    \* history: every task submitted to the loop, in submission order
    executed,     \* history: the submitted tasks the loop has started, in order
    disc,         \* the disconnect coroutine: none, pending, running, done
    stopReq,      \* eventloop.stop() was called
    conn_pc,      \* on_connect: none, joining, done, raised
    joinIdx,      \* on_connect: index of the next channel to join
    joined,       \* the join calls issued, in order
    whois_cache,  \* IrcClient.whois_cache
    inflight,     \* on_channel_message tasks suspended in await self.whois(by)
    dispatched,   \* the messages handed to self.agent.dispatch, in order
    sent,         \* the client.message calls executed, in order
    events,       \* history: the inbound events so far, in arrival order
    nrecv,        \* number of receive() calls so far
    evBound,      \* bound of this run on the inbound events
    recvBound,    \* bound of this run on the receive() calls
    queried,      \* history: identity(n) was called since n's last invalidation
    failed,       \* history: the events whose WHOIS failed
    lastIdentity  \* history: the last return of identity()

vars == <<config, hostpc, thread, connected, queue, submitted, executed, disc, stopReq, conn_pc, joinIdx, joined,
          whois_cache, inflight, dispatched, sent, events, nrecv, queried, failed,
          lastIdentity, evBound, recvBound, runner, options, answers, client>>

hostVars == <<hostpc, nrecv, evBound, recvBound, runner, options, answers, client>>
cfgVars == <<options, answers>>
lifeVars == <<thread, connected, disc, stopReq>>
connVars == <<conn_pc, joinIdx, joined>>
queueVars == <<queue, submitted, executed>>
cacheVars == <<whois_cache, inflight, queried, failed, lastIdentity>>

\* --------------------------------------------------------------- records
Absent == [kind |-> "absent", identified |-> FALSE, account |-> None, stale |-> FALSE]

WhoisRecord(identified, account) ==
    [kind |-> "rec", identified |-> identified, account |-> account]

\* what "await self.whois(nick)" can produce
WhoisOutcomes ==
    {WhoisRecord(TRUE, a) : a \in Accounts}
        \cup {WhoisRecord(FALSE, None)}
        \cup {[kind |-> "none", identified |-> FALSE, account |-> None]}
        \cup {[kind |-> "raise", identified |-> FALSE, account |-> None]}

CacheEntry(outcome, stale) ==
    [kind |-> outcome.kind, identified |-> outcome.identified,
     account |-> outcome.account, stale |-> stale]

NoIdentity == [nick |-> <<>>, fresh |-> FALSE, rec |-> Absent, ret |-> None,
               cached |-> Absent]

\* halibot's Message(body=, author=, identity=, origin=); ev is history: the
\* number of the inbound event it was built for
Message(body, author, identity, origin, ev) ==
    [body |-> body, author |-> author, identity |-> identity, origin |-> origin,
     ev |-> ev]

\* history record of an inbound event; of an on_quit or on_nick_change it
\* keeps the nicks the handler names and the nicks that had a cache entry
\* when it started
Event(kind, target, by, text) ==
    [kind |-> kind, target |-> target, by |-> by, text |-> text, nicks |-> {},
     had |-> {}]

Invalidation(nicks, cache) ==
    [kind |-> "other", target |-> <<>>, by |-> <<>>, text |-> <<>>, nicks |-> nicks,
     had |-> {n \in Nicks : cache[n].kind # "absent"}]

\* msg.whom(), line 64: the tail of the resource identifier after the last "/"
RECURSIVE Whom(_)
Whom(s) ==
    IF s = <<>> THEN <<>>
    ELSE IF s[Len(s)] = "/" THEN <<>>
    ELSE Whom(SubSeq(s, 1, Len(s) - 1)) \o <<s[Len(s)]>>

NoMsg == [origin |-> <<>>, body |-> <<>>]

\* line 64: the task of client.message(msg.whom(), msg.body), handed to the
\* loop with asyncio.ensure_future; of is history: the message it was made for
SendTaskWholeOrigin(msg) ==
    [kind |-> "send", target |-> msg.origin, text |-> msg.body, of |-> msg,
     via |-> "ensure_future"]

SendTask(msg) ==
    [kind |-> "send", target |-> Whom(msg.origin), text |-> msg.body, of |-> msg,
     via |-> "ensure_future"]

\* line 67: the task of client.disconnect(), handed to the loop with
\* asyncio.run_coroutine_threadsafe
DisconnectTask ==
    [kind |-> "disconnect", target |-> <<>>, text |-> <<>>, of |-> NoMsg,
     via |-> "run_coroutine_threadsafe"]

\* ---------------------------------------------------------- pure helpers
\* self.options before the first prompt
NoOptions == [k \in OptionKeys |-> None]

\* optionString, optionInt, optionBoolean: the answer to the prompt is stored
\* under key; an unanswered prompt leaves the key as it was
SetOption(opts, key, answer) ==
    IF answer = None THEN opts ELSE [opts EXCEPT ![key] = answer]

\* Configurer.configure, lines 16-33, prompt by prompt
Options(ans) ==
    LET o17 == SetOption(NoOptions, "nickname", ans.nickname)
        o18 == SetOption(o17, "hostname", ans.hostname)
        o19 == SetOption(o18, "port", ans.port)
        o20 == SetOption(o19, "channel", ans.channel)
        o22 == SetOption(o20, "tls", ans.tls)
        o24 == IF o22["tls"] = "True"
               THEN SetOption(o22, "tls-verify", ans.verify) ELSE o22
        certs == o22["tls"] = "True" /\ o24["tls-verify"] = "True"
        o26 == IF certs THEN SetOption(o24, "tls-certificate-file", ans.certfile)
               ELSE o24
        o27 == IF certs THEN SetOption(o26, "tls-certificate-keyfile", ans.keyfile)
               ELSE o26
        o28 == IF certs THEN SetOption(o27, "tls-certificate-file", ans.certpass)
               ELSE o27
        o30 == SetOption(o28, "sasl-username", ans.sasluser)
        sasl == o30["sasl-username"] # None
        o32 == IF sasl THEN SetOption(o30, "sasl-password", ans.saslpass) ELSE o30
        o33 == IF sasl THEN SetOption(o32, "sasl-identity", ans.saslid) ELSE o32
    IN  o33

NoClient ==
    [nickname |-> None, tls_certificate_file |-> None,
     tls_certificate_keyfile |-> None, tls_certificate_password |-> None,
     sasl_username |-> None, sasl_password |-> None, sasl_identity |-> None,
     made |-> FALSE]

\* init, lines 43-51: the keyword arguments of IrcClient(...); config.get of
\* a key that is not set gives None
IrcClient(cfg) ==
    [nickname |-> cfg["nickname"],
     tls_certificate_file |-> cfg["tls-certificate-file"],
     tls_certificate_keyfile |-> cfg["tls-certificate-keyfile"],
     tls_certificate_password |-> cfg["tls-certificate-file"],
     sasl_username |-> cfg["sasl-username"],
     sasl_password |-> cfg["sasl-password"],
     sasl_identity |-> cfg["sasl-identity"],
     made |-> TRUE]

\* on_connect, lines 113-120: a str is joined as one channel, anything else
\* is iterated
ChannelListIterAlways(cfg) ==
    IF cfg.isstr THEN [i \in 1..Len(cfg.str) |-> <<cfg.str[i]>>] ELSE cfg.list

ChannelList(cfg) ==
    IF cfg.isstr THEN <<cfg.str>> ELSE cfg.list

\* lines 147 and 157: self.agent.name + '/' + tail
OriginSwapped(name, tail) == tail \o <<"/">> \o name

Origin(name, tail) == name \o <<"/">> \o tail

\* identity(), lines 137-141, on the record at whois_cache[nick]
IdentityResultInverted(rec) == IF rec.identified THEN None ELSE rec.account

IdentityResult(rec) == IF rec.identified THEN rec.account ELSE None

\* whois_cache.pop(nick) if nick in whois_cache, for every nick of the set
InvalidateClearsAll(cache, nicks) ==
    [n \in Nicks |-> Absent]

Invalidate(cache, nicks) ==
    [n \in Nicks |-> IF n \in nicks THEN Absent ELSE cache[n]]

\* a WHOIS in flight for one of the nicks was issued before this invalidation
MarkStale(tasks, nicks) ==
    [i \in 1..Len(tasks) |->
        IF tasks[i].by \in nicks THEN [tasks[i] EXCEPT !.stale = TRUE] ELSE tasks[i]]

Remove(s, i) == SubSeq(s, 1, i - 1) \o SubSeq(s, i + 1, Len(s))

LoopRunning == thread \in {"connecting", "serving"}

\* ------------------------------------------------------------------ Init
\* the state before IrcAgent.init(): no client, no thread, and the empty
\* class attribute whois_cache
Loaded ==
    /\ config \in ChannelConfigs
    /\ client = NoClient
    /\ thread = "none"
    /\ runner = "none"
    /\ connected = FALSE
    /\ queue = <<>>
    /\ submitted = <<>>
    /\ executed = <<>>
    /\ disc = "none"
    /\ stopReq = FALSE
    /\ conn_pc = "none"
    /\ joinIdx = 1
    /\ joined = <<>>
    /\ whois_cache = [n \in Nicks |-> Absent]
    /\ inflight = <<>>
    /\ dispatched = <<>>
    /\ sent = <<>>
    /\ events = <<>>
    /\ nrecv = 0
    /\ queried = [n \in Nicks |-> FALSE]
    /\ failed = {}
    /\ lastIdentity = NoIdentity

\* the agent is configured and instantiated
Constructed ==
    /\ Loaded
    /\ hostpc = "new"
    /\ answers = DefaultAnswers
    /\ options = Options(DefaultAnswers)

Init ==
    /\ Constructed
    /\ evBound = MaxEvents
    /\ recvBound = MaxReceives

HostInit ==
    /\ Constructed
    /\ evBound = HostMaxEvents
    /\ recvBound = HostMaxReceives

\* the state before the configurer has asked anything
ConfigInit ==
    /\ Loaded
    /\ hostpc = "configure"
    /\ answers = DefaultAnswers
    /\ options = NoOptions
    /\ evBound = MaxEvents
    /\ recvBound = MaxReceives

\* ------------------------------------------------------------- configurer
\* Configurer.configure, lines 16-33, with the answers ans; its options
\* become the configuration of the agent
Configure(ans) ==
    /\ hostpc = "configure"
    /\ hostpc' = "new"
    /\ answers' = ans
    /\ options' = Options(ans)
    /\ UNCHANGED <<config, client, nrecv, evBound, recvBound, runner, lifeVars,
                   queueVars, connVars, cacheVars, dispatched, sent, events>>

\* ------------------------------------------------------------ host thread
\* IrcAgent.init, lines 41-56, and _start_client_thread, lines 84-86: the
\* client is created and _run_client is started on a thread of its own
AgentInitBlocking ==
    /\ hostpc = "new"
    /\ hostpc' = "init"
    /\ client' = IrcClient(options)
    /\ thread' = "connecting"
    /\ runner' = "host"
    /\ UNCHANGED <<config, cfgVars, connected, queueVars, disc, stopReq, connVars, cacheVars,
                   dispatched, sent, events, nrecv, evBound, recvBound>>

AgentInit ==
    /\ hostpc = "new"
    /\ hostpc' = "running"
    /\ client' = IrcClient(options)
    /\ thread' = "connecting"
    /\ runner' = "client"
    /\ UNCHANGED <<config, cfgVars, connected, queueVars, disc, stopReq, connVars, cacheVars,
                   dispatched, sent, events, nrecv, evBound, recvBound>>

\* init() of another agent instance in the same process, once the one before
\* it has shut down: line 43 constructs another IrcClient and line 56 starts
\* a thread for it; everything the old client and its loop held is gone with
\* them, but whois_cache is an attribute of the class IrcClient (line 104),
\* which no line re-creates
NewInstance ==
    /\ hostpc = "returned"
    /\ hostpc' = "running"
    /\ client' = IrcClient(options)
    /\ thread' = "connecting"
    /\ runner' = "client"
    /\ connected' = FALSE
    /\ disc' = "none"
    /\ stopReq' = FALSE
    /\ queue' = <<>>
    /\ submitted' = <<>>
    /\ executed' = <<>>
    /\ conn_pc' = "none"
    /\ joinIdx' = 1
    /\ joined' = <<>>
    /\ inflight' = <<>>
    /\ UNCHANGED <<config, cfgVars, whois_cache, queried, failed, lastIdentity,
                   dispatched, sent, events, nrecv, evBound, recvBound>>

\* IrcAgent.receive, lines 63-64
Receive(msg) ==
    /\ hostpc \in {"running", "returned"}
    /\ nrecv < recvBound
    /\ nrecv' = nrecv + 1
    /\ queue' = Append(queue, SendTask(msg))
    /\ submitted' = Append(submitted, SendTask(msg))
    /\ UNCHANGED executed
    /\ UNCHANGED <<config, cfgVars, client, hostpc, evBound, recvBound, runner, lifeVars,
                   connVars, cacheVars, dispatched, sent, events>>

\* IrcAgent.shutdown, line 67: run_coroutine_threadsafe(client.disconnect())
ShutdownSubmitStopsLoop ==
    /\ hostpc = "running"
    /\ hostpc' = "sd_join"
    /\ queue' = Append(queue, DisconnectTask)
    /\ submitted' = Append(submitted, DisconnectTask)
    /\ UNCHANGED executed
    /\ disc' = "pending"
    /\ stopReq' = TRUE
    /\ UNCHANGED <<config, cfgVars, client, thread, connected, connVars, cacheVars,
                   dispatched, sent, events, nrecv, evBound, recvBound, runner>>

ShutdownSubmit ==
    /\ hostpc = "running"
    /\ hostpc' = "sd_join"
    /\ queue' = Append(queue, DisconnectTask)
    /\ submitted' = Append(submitted, DisconnectTask)
    /\ UNCHANGED executed
    /\ disc' = "pending"
    /\ UNCHANGED <<config, cfgVars, client, thread, connected, stopReq, connVars,
                   cacheVars, dispatched, sent, events, nrecv, evBound, recvBound, runner>>

\* IrcAgent.shutdown, line 68: self.thread.join()
ShutdownJoinNoWait ==
    /\ hostpc = "sd_join"
    /\ hostpc' = "sd_stop"
    /\ UNCHANGED <<config, cfgVars, client, lifeVars, queueVars, connVars, cacheVars,
                   dispatched, sent, events, nrecv, evBound, recvBound, runner>>

ShutdownJoin ==
    /\ hostpc = "sd_join"
    /\ thread = "exited"
    /\ hostpc' = "sd_stop"
    /\ UNCHANGED <<config, cfgVars, client, lifeVars, queueVars, connVars, cacheVars,
                   dispatched, sent, events, nrecv, evBound, recvBound, runner>>

\* IrcAgent.shutdown, line 71: self.client.eventloop.stop()
ShutdownStop ==
    /\ hostpc = "sd_stop"
    /\ hostpc' = "returned"
    /\ stopReq' = TRUE
    /\ UNCHANGED <<config, cfgVars, client, thread, connected, disc, queueVars, connVars,
                   cacheVars, dispatched, sent, events, nrecv, evBound, recvBound, runner>>

\* ---------------------------------------------------------- client thread
\* _run_client, lines 73-79: client.run() has connected; on_connect is called
ConnectDone ==
    /\ thread = "connecting"
    /\ thread' = "serving"
    /\ connected' = TRUE
    /\ conn_pc' = "joining"
    /\ UNCHANGED <<config, hostVars, queueVars, disc, stopReq, joinIdx, joined,
                   cacheVars, dispatched, sent, events>>

\* on_connect, lines 113-120: one "await self.join(c)", which returns or raises
OnConnectJoin(raises) ==
    /\ LoopRunning
    /\ conn_pc = "joining"
    /\ IF joinIdx > Len(ChannelList(config))
       THEN /\ raises = FALSE
            /\ conn_pc' = "done"
            /\ UNCHANGED <<joinIdx, joined>>
       ELSE /\ joined' = Append(joined, ChannelList(config)[joinIdx])
            /\ joinIdx' = joinIdx + 1
            /\ conn_pc' = IF raises THEN "raised" ELSE "joining"
    /\ UNCHANGED <<config, hostVars, lifeVars, queueVars, cacheVars, dispatched, sent, events>>

\* the event loop starts the i-th task of its queue: client.message
\* (line 64) or client.disconnect (line 67)
RunTask(i) ==
    /\ LoopRunning
    /\ i \in DOMAIN queue
    /\ queue' = Remove(queue, i)
    /\ executed' = Append(executed, queue[i])
    /\ UNCHANGED submitted
    /\ IF queue[i].kind = "send"
       THEN /\ sent' = Append(sent, [target |-> queue[i].target,
                                     text |-> queue[i].text])
            /\ UNCHANGED disc
       ELSE /\ disc' = IF connected THEN "running" ELSE "done"
            /\ UNCHANGED sent
    /\ UNCHANGED <<config, hostVars, thread, connected, stopReq, connVars, cacheVars,
                   dispatched, events>>

\* the loop takes its tasks in the order they were submitted
RunSubmittedLast == RunTask(Len(queue))

RunSubmitted == RunTask(1)

\* client.disconnect (line 67) completes: the connection is closed and the
\* client stops its event loop
DisconnectFinish ==
    /\ LoopRunning
    /\ disc = "running"
    /\ disc' = "done"
    /\ connected' = FALSE
    /\ stopReq' = TRUE
    /\ UNCHANGED <<config, hostVars, thread, queueVars, connVars, cacheVars,
                   dispatched, sent, events>>

\* client.run() (lines 74-79) returns once the loop is stopped: the thread ends
LoopExit ==
    /\ LoopRunning
    /\ stopReq
    /\ thread' = "exited"
    /\ UNCHANGED <<config, hostVars, connected, queueVars, disc, stopReq, connVars,
                   cacheVars, dispatched, sent, events>>

\* on_quit, lines 122-124
OnQuit(channel, user) ==
    /\ thread = "serving"
    /\ connected
    /\ Len(events) < evBound
    /\ events' = Append(events, Invalidation({user}, whois_cache))
    /\ whois_cache' = Invalidate(whois_cache, {user})
    /\ inflight' = MarkStale(inflight, {user})
    /\ queried' = [queried EXCEPT ![user] = FALSE]
    /\ UNCHANGED <<config, hostVars, lifeVars, queueVars, connVars, failed, lastIdentity,
                   dispatched, sent>>

\* on_nick_change, lines 126-129
OnNickChange(old, new) ==
    /\ thread = "serving"
    /\ connected
    /\ Len(events) < evBound
    /\ events' = Append(events, Invalidation({old, new}, whois_cache))
    /\ whois_cache' = Invalidate(whois_cache, {old, new})
    /\ inflight' = MarkStale(inflight, {old, new})
    /\ queried' = [n \in Nicks |-> IF n \in {old, new} THEN FALSE ELSE queried[n]]
    /\ UNCHANGED <<config, hostVars, lifeVars, queueVars, connVars, failed, lastIdentity,
                   dispatched, sent>>

\* on_channel_message, lines 146-151, up to the await in identity(), line 134:
\* on a cache hit identity() returns at once (lines 137-141) and the message
\* is dispatched; on a miss the task is suspended in self.whois(by)
OnChannelMessage(target, by, text) ==
    /\ thread = "serving"
    /\ connected
    /\ Len(events) < evBound
    /\ events' = Append(events, Event("chan", target, by, text))
    /\ queried' = [queried EXCEPT ![by] = TRUE]
    /\ IF whois_cache[by].kind = "absent"
       THEN /\ inflight' = Append(inflight,
                   [ev |-> Len(events) + 1, target |-> target, by |-> by, text |-> text,
                    stale |-> FALSE, redundant |-> queried[by]])
            /\ UNCHANGED <<dispatched, lastIdentity>>
       ELSE /\ UNCHANGED inflight
            /\ IF whois_cache[by].kind = "none"
               THEN UNCHANGED <<dispatched, lastIdentity>>
               ELSE /\ dispatched' = Append(dispatched,
                           Message(text, by, IdentityResult(whois_cache[by]),
                                   Origin(AgentName, target), Len(events) + 1))
                    /\ lastIdentity' =
                           [nick |-> by, fresh |-> FALSE, rec |-> whois_cache[by],
                            ret |-> IdentityResult(whois_cache[by]),
                            cached |-> whois_cache[by]]
    /\ UNCHANGED <<config, hostVars, lifeVars, queueVars, connVars, whois_cache, failed,
                   sent>>

\* the WHOIS of the i-th suspended task is answered: identity() resumes at
\* line 134, stores the answer, reads it back (line 137) and returns, and
\* on_channel_message dispatches (lines 148-151). An exception ends the task.
WhoisReply(i, outcome) ==
    /\ thread = "serving"
    /\ connected
    /\ i \in 1..Len(inflight)
    /\ inflight' = Remove(inflight, i)
    /\ LET t == inflight[i]
           stored == [whois_cache EXCEPT ![t.by] = CacheEntry(outcome, t.stale)]
       IN  /\ whois_cache' = IF outcome.kind = "raise" THEN whois_cache ELSE stored
           /\ failed' = IF outcome.kind = "rec" THEN failed ELSE failed \cup {t.ev}
           /\ IF outcome.kind = "rec"
              THEN /\ dispatched' = Append(dispatched,
                          Message(t.text, t.by, IdentityResult(stored[t.by]),
                                  Origin(AgentName, t.target), t.ev))
                   /\ lastIdentity' =
                          [nick |-> t.by, fresh |-> TRUE,
                           rec |-> CacheEntry(outcome, t.stale),
                           ret |-> IdentityResult(stored[t.by]),
                           cached |-> whois_cache'[t.by]]
              ELSE UNCHANGED <<dispatched, lastIdentity>>
    /\ UNCHANGED <<config, hostVars, lifeVars, queueVars, connVars, queried, sent, events>>

\* on_private_message, lines 156-160: self.identity(by) is not awaited, so
\* the coroutine object itself becomes the identity and its body never runs
OnPrivateMessage(by, text) ==
    /\ thread = "serving"
    /\ connected
    /\ Len(events) < evBound
    /\ events' = Append(events, Event("priv", <<>>, by, text))
    /\ dispatched' = Append(dispatched,
           Message(text, by, Coroutine, Origin(AgentName, by), Len(events) + 1))
    /\ UNCHANGED <<config, hostVars, lifeVars, queueVars, connVars, cacheVars, sent>>

\* --------------------------------------------------------- specification
Next ==
    \/ AgentInit
    \/ \E msg \in HostMsgs : Receive(msg)
    \/ ShutdownSubmit
    \/ ShutdownJoin
    \/ ShutdownStop
    \/ ConnectDone
    \/ \E raises \in BOOLEAN : OnConnectJoin(raises)
    \/ RunSubmitted
    \/ DisconnectFinish
    \/ LoopExit
    \/ \E c \in Channels, u \in Nicks : OnQuit(c, u)
    \/ \E old \in Nicks, new \in Nicks : OnNickChange(old, new)
    \/ \E c \in Channels, by \in Nicks, text \in Texts : OnChannelMessage(c, by, text)
    \/ \E i \in DOMAIN inflight, o \in WhoisOutcomes : WhoisReply(i, o)
    \/ \E by \in Nicks, text \in Texts : OnPrivateMessage(by, text)

Spec == Init /\ [][Next]_vars

HostSpec == HostInit /\ [][Next]_vars

\* fair scheduling: the client thread keeps running its loop (the connect,
\* on_connect, the submitted tasks, the disconnect, the return of run()), and
\* the host thread keeps running shutdown() once it has called it
FairSpec ==
    /\ HostInit
    /\ [][Next]_vars
    /\ WF_vars(ConnectDone)
    /\ WF_vars(\E raises \in BOOLEAN : OnConnectJoin(raises))
    /\ WF_vars(RunSubmitted)
    /\ WF_vars(DisconnectFinish)
    /\ WF_vars(LoopExit)
    /\ WF_vars(ShutdownJoin)
    /\ WF_vars(ShutdownStop)

\* the agent is shut down and instantiated again in one process
NextRestart ==
    \/ Next
    \/ NewInstance

RestartSpec == HostInit /\ [][NextRestart]_vars

\* from the configurer to init()
NextConfig ==
    \/ \E ans \in AnswerSets : Configure(ans)
    \/ AgentInit

ConfigSpec == ConfigInit /\ [][NextConfig]_vars

\* ----------------------------------------------------------------- claims

\* C1: once n was invalidated (on_quit(n), or on_nick_change with n as old or
\* new nick), the cache never holds, for n, a record fetched by a WHOIS that
\* was issued before that invalidation: an entry is present only if n was
\* WHOIS-queried since its last invalidation. (stale marks a record whose
\* WHOIS was in flight when its nick was invalidated.)
C1_NoStaleEntry ==
    \A n \in Nicks : whois_cache[n].kind # "absent" => ~whois_cache[n].stale

\* C2: an identity(n) call that follows another identity(n) call, with no
\* quit or nick change for n in between, issues no WHOIS, also when the
\* first call still awaits its reply.
C2_SecondCallIssuesNoWhois ==
    \A i \in 1..Len(inflight) : ~inflight[i].redundant

\* C3: shutdown() returns only after the client thread has terminated, and
\* from then on there is no identity-cache access, no IRC send, no join and
\* no dispatch to the host.
C3_QuietAfterShutdown ==
    /\ [](hostpc = "returned" => thread = "exited")
    /\ [][hostpc = "returned" =>
            UNCHANGED <<whois_cache, inflight, lastIdentity, sent, joined,
                        dispatched>>]_vars

\* shutdown() has returned after the agent did real work: a message was
\* dispatched, and a send submitted by receive() is left in the queue
C3_Witness ==
    /\ hostpc = "returned"
    /\ thread = "exited"
    /\ dispatched # <<>>
    /\ queue # <<>>

C5_IdentityResolved ==
    \A i \in 1..Len(dispatched) : dispatched[i].identity \in Accounts \cup {None}

\* C6: a message whose author's WHOIS failed (raised, or answered None) is
\* still dispatched, exactly once, with identity None.
C6_DispatchedWhenWhoisFails ==
    \A e \in failed :
        Cardinality({i \in 1..Len(dispatched) :
            dispatched[i].ev = e /\ dispatched[i].identity = None}) = 1

\* C7: identity(nick) returns the account of the record for nick if the
\* record's identified flag is true and None otherwise, for a fetched record
\* and a cached one; a fetched record is in the cache when identity returns.
C7_IdentityResult ==
    lastIdentity.nick \in Nicks =>
        /\ lastIdentity.ret =
              IF lastIdentity.rec.identified THEN lastIdentity.rec.account ELSE None
        /\ lastIdentity.rec.kind = "rec"
        /\ lastIdentity.cached = lastIdentity.rec

\* identity() has answered from the cache with the account of an identified
\* nick, fetched by an earlier call
C7_Witness ==
    /\ lastIdentity.nick \in Nicks
    /\ ~lastIdentity.fresh
    /\ lastIdentity.ret \in Accounts
    /\ Len(dispatched) = 2

\* C8: on_connect joins a str channel with exactly one join call, and a
\* sequence with one join call per element, in the order of the sequence:
\* the joins issued are always a prefix of that, and all of it once
\* on_connect has returned.
C8_JoinsFollowConfig ==
    /\ config.isstr =>
          /\ joined \in {<<>>, <<config.str>>}
          /\ conn_pc = "done" => joined = <<config.str>>
    /\ ~config.isstr =>
          /\ Len(joined) <= Len(config.list)
          /\ joined = SubSeq(config.list, 1, Len(joined))
          /\ conn_pc = "done" => joined = config.list

\* on_connect has returned after joining a sequence of two channels
C8_Witness ==
    /\ conn_pc = "done"
    /\ ~config.isstr
    /\ Len(joined) = 2

\* C9: when joining one channel of a sequence fails, on_connect still
\* attempts to join every remaining channel.
C9_AllChannelsAttempted ==
    (~config.isstr /\ conn_pc \in {"done", "raised"}) => joined = config.list

\* C10: a dispatched message has the body and the author of its event, and
\* origin agent name + "/" + target for a channel message, agent name + "/" +
\* author for a private message.
C10_OriginBodyAuthor ==
    \A i \in 1..Len(dispatched) :
        LET m == dispatched[i]
            e == events[m.ev]
        IN  /\ m.body = e.text
            /\ m.author = e.by
            /\ m.origin = AgentName \o <<"/">> \o
                             (IF e.kind = "chan" THEN e.target ELSE e.by)

\* a channel message and a private message have both been dispatched
C10_Witness ==
    /\ Len(dispatched) = 2
    /\ events[dispatched[1].ev].kind = "chan"
    /\ events[dispatched[2].ev].kind = "priv"

\* t is the part of origin after its last "/"
IsTail(origin, t) ==
    /\ \A i \in DOMAIN t : t[i] # "/"
    /\ Len(origin) > Len(t)
    /\ origin[Len(origin) - Len(t)] = "/"
    /\ SubSeq(origin, Len(origin) - Len(t) + 1, Len(origin)) = t

C12_SubmissionOrder ==
    /\ Len(executed) <= Len(submitted)
    /\ executed = SubSeq(submitted, 1, Len(executed))
    /\ LET sends == SelectSeq(executed, LAMBDA e : e.kind = "send")
       IN  sent = [i \in DOMAIN sends |->
                      [target |-> sends[i].target, text |-> sends[i].text]]

\* two different sends and then the disconnect have been executed
C12_Witness ==
    /\ Len(executed) = 3
    /\ executed[1] # executed[2]
    /\ executed[2].kind = "send"
    /\ executed[3].kind = "disconnect"
    /\ Len(sent) = 2

\* C13: init() returns to the host thread without waiting for the connection:
\* whenever the connect-and-serve run exists, it executes on the client
\* thread and init() has returned.
C13_InitDoesNotBlock ==
    thread # "none" => (runner = "client" /\ hostpc \notin {"new", "init"})

\* init() has returned while the client thread is still connecting
C13_Witness ==
    /\ hostpc = "running"
    /\ runner = "client"
    /\ thread = "connecting"
    /\ ~connected

\* C14: every event handler and every submitted task runs to completion
\* before the next one starts: while a handler is suspended in identity()'s
\* await, no other handler starts and no submitted task is run.
C14_HandlersRunToCompletion ==
    [][inflight # <<>> => (events' = events /\ executed' = executed)]_vars

\* C15: the host thread hands its work to the loop only through the
\* thread-safe handoff: every task it submitted, from receive() and from
\* shutdown(), went through run_coroutine_threadsafe.
C15_ThreadSafeHandoff ==
    \A i \in DOMAIN submitted : submitted[i].via = "run_coroutine_threadsafe"

\* C17: messages are dispatched in the arrival order of their events.
C17_DispatchInArrivalOrder ==
    \A i, j \in DOMAIN dispatched : i < j => dispatched[i].ev < dispatched[j].ev

\* C20: an invalidation touches only the nicks it names: after on_quit(user)
\* or on_nick_change(old, new) the named nicks have no entry and every other
\* entry is what it was; with no named entry present the cache is unchanged.
C20_InvalidationFrame ==
    [][(Len(events') > Len(events) /\ events'[Len(events')].kind = "other") =>
          LET named == events'[Len(events')].nicks
          IN  /\ \A n \in Nicks :
                    whois_cache'[n] = IF n \in named THEN Absent ELSE whois_cache[n]
              /\ (\A n \in named : whois_cache[n].kind = "absent") =>
                    whois_cache' = whois_cache]_vars

\* an invalidation that named only "a" ran while "b" had an entry, and "b"
\* still has it
C20_Witness ==
    \E i \in DOMAIN events :
        /\ events[i].kind = "other"
        /\ events[i].nicks = {<<"a">>}
        /\ <<"b">> \in events[i].had
        /\ whois_cache[<<"b">>].kind = "rec"

\* C19: the certificate file, keyfile and password are three options: when
\* configure() asks for them, each answer is what the agent's configuration
\* holds under the key of its own, and what init() passes to the IrcClient
\* parameter of the same meaning.
C19_TlsOptionsDistinct ==
    (answers.tls = "True" /\ answers.verify = "True" /\ hostpc # "configure") =>
        /\ options["tls-certificate-file"] = answers.certfile
        /\ options["tls-certificate-keyfile"] = answers.keyfile
        /\ options["tls-certificate-password"] = answers.certpass
        /\ client.made =>
              /\ client.tls_certificate_file = answers.certfile
              /\ client.tls_certificate_keyfile = answers.keyfile
              /\ client.tls_certificate_password = answers.certpass

\* C16: the cache lives as long as one client instance: an IrcClient that has
\* just been constructed, and has handled no event yet, has an empty cache;
\* no entry stored by the instance before it is there.
C16_NewInstanceStartsEmpty ==
    (client.made /\ thread = "connecting") =>
        \A n \in Nicks : whois_cache[n].kind = "absent"

\* C18: shutdown() terminates: once it was called on a started agent and the
\* loop has processed its disconnect, the client thread exits and shutdown()
\* returns.
C18_ShutdownTerminates ==
    (hostpc = "sd_join" /\ disc = "done") ~> (thread = "exited" /\ hostpc = "returned")

====
